---- MODULE Spec2Model ----
(***************************************************************************)
(* Planterbox ESP32 firmware (src/esp32-firmware/src/main.cpp): the local  *)
(* control loop, i.e. loop() with its two dosing state machines, the       *)
(* global lockout and the application of the server's directive.           *)
(*                                                                         *)
(* Time.  millis() is an unsigned 32-bit millisecond counter.  The model   *)
(* counts time in ticks of 2000 ms on a clock that wraps at ClockModulus   *)
(* ticks (standing for 2^32 ms): every addition and subtraction on a time  *)
(* value is taken modulo ClockModulus, as unsigned long arithmetic is in   *)
(* the code.  dosingDuration and delayDuration are 1 tick (2000 ms).  The  *)
(* default lockout (120000 ms) is scaled down to DefaultLockoutMs ticks,   *)
(* keeping what matters of it: it outlasts a dose, and the longest         *)
(* interval armed (a PPM sequence plus the lockout) is shorter than the    *)
(* clock's period.                                                         *)
(*                                                                         *)
(* Steps.  loop() is single threaded.  One iteration is two steps:         *)
(*   LoopOnline / LoopOffline  lines 729-829: the test of line 785 and,    *)
(*                             when it holds, the dosing machines, the     *)
(*                             sensors and the light regulator;            *)
(*   Http...                   lines 831-935: the POST (it blocks, so      *)
(*                             time passes), then the branch taken on the  *)
(*                             response.                                   *)
(* The statements of one step run within a millisecond of each other, so   *)
(* every millis() call of a step reads the same tick.  The code sees the   *)
(* radio only through WiFi.status(): wifi holds what line 785 last read,   *)
(* and each iteration is free to read either value.                        *)
(***************************************************************************)
EXTENDS Integers, FiniteSets, Sequences, TLC

\* ------------------------------------------------------------ bounds
\* The clock wraps at ClockModulus ticks (2^32 ms in the code).
ClockModulus == 8
\* The POST blocks for 0..MaxBlock ticks per iteration.
MaxBlock == 2
\* The ghost clock seqAge stops counting here.
SeqAgeCap == 7

\* ------------------------------------------------------ program constants
dosingDuration == 1
delayDuration == 1
DefaultLockoutMs == 4
\* The light regulator (lines 111-115, 216).  Distances are whole centimetres.
\* The throttle interval (1000 ms) is one tick here.
TARGET_MIN_CM == 25
TARGET_MAX_CM == 30
LIGHT_ADJUST_STEPS == 5
LIGHT_ADJUST_INTERVAL_MS == 1
MaxValidCm == 400
SeqLen == 8

\* A directive field that is absent (or not of the requested type): the
\* ArduinoJson expression doc[key] | dflt then yields dflt.
NoField == -1

\* Values the server may send.
LightValues == {0, 400}
LockoutValues == {NoField, 0, 1}
HttpCodes == {-1, 200, 500}
Directives ==
    [light : LightValues, ph_up_pump : BOOLEAN, ph_down_pump : BOOLEAN,
     ppm_a_pump : BOOLEAN, ppm_b_pump : BOOLEAN, lockout_ms : LockoutValues]

VARIABLES
    now,                 \* millis()
    config_mode,         \* line 30, set once by setup()
    wifi,                \* WiFi.status() == WL_CONNECTED, as last read (785)
    pc,                  \* "top": at line 729; "net": at line 831
    webClient,           \* lines 743-782 in this iteration: "none" (not reached,
                         \* or no client), "waiting" (inside the while loop of
                         \* line 749), "done" (line 780 passed)
    phState, phStateChangeTime,
    ppmState, ppmStateChangeTime,
    globalLockoutUntil,
    pin,                 \* the four pump outputs, TRUE = HIGH
    ledDuty,             \* duty written to the grow-light PWM channel
    lastHttp,            \* branch taken on the response of this iteration
    httpCode,            \* the value of `code` there (0: no POST was made)
    currentDistanceCm,   \* line 106: last valid ultrasonic reading, 0 if none
    currentTempC,        \* line 105, in degrees
    sensorData,          \* line 104: the fields "temperature" (degrees) and
                         \* "ppm" (1/100 ppm, rounded down) of the document
    lastPpmVolt,         \* line 142, in 1/100 V
    dhtReading,          \* ghost: what dht.readTemperature() returned last
    lastLightAdjustTime, \* line 116
    stepIndex,           \* Stepper28BYJ::stepIndex, line 71
    coil,                \* the levels last written to IN1..IN4, 1 = HIGH
    stepsUp, stepsDown,  \* ghost: step(true) / step(false) calls of this iteration
    startHint,           \* ghost: lockout_ms of the directive that started a
                         \* dose in this iteration (NoField: absent, or no start)
    seqAge,              \* ghost: ticks since the PPM sequence began
    ppmPhaseAge,         \* ghost: ticks since ppmState was entered (0 in IDLE)
    ppmMoved,            \* ghost: lines 789-806 changed ppmState in this iteration
    lockRemain           \* ghost: ticks left of the interval last armed

vars == <<now, config_mode, wifi, pc, webClient, phState, phStateChangeTime, ppmState,
          ppmStateChangeTime, globalLockoutUntil, pin, ledDuty, lastHttp,
          httpCode, currentDistanceCm, currentTempC, sensorData, lastPpmVolt,
          dhtReading, lastLightAdjustTime, stepIndex, coil,
          stepsUp, stepsDown, startHint, seqAge, ppmPhaseAge, ppmMoved,
          lockRemain>>

\* ------------------------------------------------------ unsigned arithmetic
Add(a, b) == (a + b) % ClockModulus
Sub(a, b) == (a - b + ClockModulus) % ClockModulus
Min(a, b) == IF a < b THEN a ELSE b
Max(a, b) == IF a > b THEN a ELSE b

\* constrain(x, lo, hi) of Arduino.h
constrain(x, lo, hi) == IF x < lo THEN lo ELSE IF x > hi THEN hi ELSE x

\* ------------------------------------------------------------ the state
Pins == {"PH_UP", "PH_DOWN", "PPM_A", "PPM_B"}
AllLow == [p \in Pins |-> FALSE]

\* The actuator state as one record, for the operators below.
Cur ==
    [phState |-> phState, phTime |-> phStateChangeTime,
     ppmState |-> ppmState, ppmTime |-> ppmStateChangeTime,
     lockout |-> globalLockoutUntil, pin |-> pin, duty |-> ledDuty]

\* A timestamp is read only while its machine is not IDLE (lines 789-813 test
\* the state first) and every start overwrites it (lines 882, 889, 896): the
\* model keeps 0 for the timestamp of an IDLE machine, whose value no
\* statement can observe.
Canon(s) ==
    [s EXCEPT !.phTime = IF s.phState = "PH_IDLE" THEN 0 ELSE s.phTime,
              !.ppmTime = IF s.ppmState = "PPM_IDLE" THEN 0 ELSE s.ppmTime]

Install(s) ==
    /\ phState' = s.phState
    /\ phStateChangeTime' = Canon(s).phTime
    /\ ppmState' = s.ppmState
    /\ ppmStateChangeTime' = Canon(s).ppmTime
    /\ globalLockoutUntil' = s.lockout
    /\ pin' = s.pin
    /\ ledDuty' = s.duty

\* bool isLockedOut() { return millis() < globalLockoutUntil; }
isLockedOut(s, t) == t < s.lockout

\* controlGrowLight without line 173: the value goes to the 8-bit channel as
\* it came.
controlGrowLightNoClamp(s, brightness) ==
    [s EXCEPT !.duty = brightness % 256]

\* void controlGrowLight(int brightness)
controlGrowLight(s, brightness) ==
    [s EXCEPT !.duty = constrain(brightness, 0, 255)]

\* ------------------------------------------------- sensors, 196-246
\* The value isnan() is true of.
NaN == -999

\* The sensor state as one record.
Sens ==
    [temp |-> currentTempC, data |-> sensorData, volt |-> lastPpmVolt,
     dht |-> dhtReading]

InstallSens(r) ==
    /\ currentTempC' = r.temp
    /\ sensorData' = r.data
    /\ lastPpmVolt' = r.volt
    /\ dhtReading' = r.dht

\* readDHT(), lines 196-208, with reading the value dht.readTemperature()
\* returns.
readDHT(r, reading) ==
    LET t == IF reading = NaN THEN 0 ELSE reading
    IN  [r EXCEPT !.data.temperature = t, !.temp = t, !.dht = reading]

\* readPpmSensor(), lines 227-246, with v the voltage of line 231 in 1/100 V:
\* ppm = 420 v / (1 + 0.02 (currentTempC - 25)), here in 1/100 ppm.
readPpmSensor(r, v) ==
    [r EXCEPT !.volt = v,
              !.data.ppm = (420 * v * 100) \div (100 + 2 * (r.temp - 25))]

\* ------------------------------------------- light height regulator, 285-315
\* The regulator's state as one record.
Reg ==
    [dist |-> currentDistanceCm, last |-> lastLightAdjustTime,
     idx |-> stepIndex, coil |-> coil, up |-> stepsUp, down |-> stepsDown]

InstallReg(r) ==
    /\ currentDistanceCm' = r.dist
    /\ lastLightAdjustTime' = r.last
    /\ stepIndex' = r.idx
    /\ coil' = r.coil
    /\ stepsUp' = r.up
    /\ stepsDown' = r.down

\* readUltrasonic(), lines 210-225: dist is the distance computed from the echo
\* (0 when pulseIn timed out); it is stored only if 0 < dist < 400.
readUltrasonic(r, dist) ==
    IF dist > 0 /\ dist < MaxValidCm THEN [r EXCEPT !.dist = dist] ELSE r

\* const uint8_t seq[8][4], lines 67-70; seq[i + 1] here is seq[i] there.
seq ==
    << <<1,0,0,0>>, <<1,1,0,0>>, <<0,1,0,0>>, <<0,1,1,0>>,
       <<0,0,1,0>>, <<0,0,1,1>>, <<0,0,0,1>>, <<1,0,0,1>> >>

CoilsLow == <<0, 0, 0, 0>>

\* Stepper28BYJ::stop(), lines 83-88
stop(r) == [r EXCEPT !.coil = CoilsLow]

\* step() advancing by a full step, two phases of the half-step table.
stepSkipsPhase(r, clockwise) ==
    LET i == (r.idx + (IF clockwise THEN 2 ELSE -2) + SeqLen) % SeqLen
    IN  [r EXCEPT !.idx = i,
                  !.coil = seq[i + 1],
                  !.up = IF clockwise THEN @ + 1 ELSE @,
                  !.down = IF clockwise THEN @ ELSE @ + 1]

\* Stepper28BYJ::step(bool clockwise), lines 89-95
step(r, clockwise) ==
    LET i == (r.idx + (IF clockwise THEN 1 ELSE -1) + SeqLen) % SeqLen
    IN  [r EXCEPT !.idx = i,
                  !.coil = seq[i + 1],
                  !.up = IF clockwise THEN @ + 1 ELSE @,
                  !.down = IF clockwise THEN @ ELSE @ + 1]

\* for (int i = 0; i < n; i++) stepper.step(clockwise);   lines 295-298, 304-307
RECURSIVE stepBatch(_, _, _)
stepBatch(r, clockwise, n) ==
    IF n = 0 THEN r ELSE stepBatch(step(r, clockwise), clockwise, n - 1)

\* adjustLightHeightAuto with the band's two ends left out of the band.
adjustLightHeightAutoOpenBand(r, t) ==
    IF Sub(t, r.last) < LIGHT_ADJUST_INTERVAL_MS THEN r
    ELSE LET r1 == [r EXCEPT !.last = t]
         IN  IF r1.dist <= TARGET_MIN_CM
             THEN stop(stepBatch(r1, TRUE, LIGHT_ADJUST_STEPS))
             ELSE IF r1.dist >= TARGET_MAX_CM
                  THEN stop(stepBatch(r1, FALSE, LIGHT_ADJUST_STEPS))
                  ELSE r1

\* adjustLightHeightAuto with the throttle of line 287 written as a deadline:
\* if (now < lastLightAdjustTime + LIGHT_ADJUST_INTERVAL_MS) return;
adjustLightHeightAutoDeadline(r, t) ==
    IF t < Add(r.last, LIGHT_ADJUST_INTERVAL_MS) THEN r
    ELSE LET r1 == [r EXCEPT !.last = t]
         IN  IF r1.dist < TARGET_MIN_CM
             THEN stop(stepBatch(r1, TRUE, LIGHT_ADJUST_STEPS))
             ELSE IF r1.dist > TARGET_MAX_CM
                  THEN stop(stepBatch(r1, FALSE, LIGHT_ADJUST_STEPS))
                  ELSE r1

\* void adjustLightHeightAuto(), with t the value millis() returns at line 286
adjustLightHeightAuto(r, t) ==
    IF Sub(t, r.last) < LIGHT_ADJUST_INTERVAL_MS THEN r
    ELSE LET r1 == [r EXCEPT !.last = t]
         IN  IF r1.dist < TARGET_MIN_CM
             THEN stop(stepBatch(r1, TRUE, LIGHT_ADJUST_STEPS))
             ELSE IF r1.dist > TARGET_MAX_CM
                  THEN stop(stepBatch(r1, FALSE, LIGHT_ADJUST_STEPS))
                  ELSE r1

\* ---------------------------------------------- dosing machines, 789-818
\* PpmAdvance with the write of line 790 left out: pump A is not switched
\* off when phase A ends.
PpmAdvanceKeepsA(s, t) ==
    IF s.ppmState = "PPM_DOSING_A" /\ Sub(t, s.ppmTime) >= dosingDuration
    THEN [s EXCEPT !.ppmState = "PPM_DELAYING", !.ppmTime = t]
    ELSE IF s.ppmState = "PPM_DELAYING" /\ Sub(t, s.ppmTime) >= delayDuration
    THEN [s EXCEPT !.pin["PPM_B"] = TRUE, !.ppmState = "PPM_DOSING_B",
                   !.ppmTime = t]
    ELSE IF s.ppmState = "PPM_DOSING_B" /\ Sub(t, s.ppmTime) >= dosingDuration
    THEN [s EXCEPT !.pin["PPM_B"] = FALSE, !.ppmState = "PPM_IDLE"]
    ELSE s

\* PpmAdvance clearing the lockout when the sequence ends.
PpmAdvanceClearsLockout(s, t) ==
    IF s.ppmState = "PPM_DOSING_A" /\ Sub(t, s.ppmTime) >= dosingDuration
    THEN [s EXCEPT !.pin["PPM_A"] = FALSE, !.ppmState = "PPM_DELAYING",
                   !.ppmTime = t]
    ELSE IF s.ppmState = "PPM_DELAYING" /\ Sub(t, s.ppmTime) >= delayDuration
    THEN [s EXCEPT !.pin["PPM_B"] = TRUE, !.ppmState = "PPM_DOSING_B",
                   !.ppmTime = t]
    ELSE IF s.ppmState = "PPM_DOSING_B" /\ Sub(t, s.ppmTime) >= dosingDuration
    THEN [s EXCEPT !.pin["PPM_B"] = FALSE, !.ppmState = "PPM_IDLE",
                   !.lockout = 0]
    ELSE s

\* PpmAdvance with the assignment of line 792 left out: the pause is timed
\* from the start of phase A.
PpmAdvanceKeepsTimer(s, t) ==
    IF s.ppmState = "PPM_DOSING_A" /\ Sub(t, s.ppmTime) >= dosingDuration
    THEN [s EXCEPT !.pin["PPM_A"] = FALSE, !.ppmState = "PPM_DELAYING"]
    ELSE IF s.ppmState = "PPM_DELAYING" /\ Sub(t, s.ppmTime) >= delayDuration
    THEN [s EXCEPT !.pin["PPM_B"] = TRUE, !.ppmState = "PPM_DOSING_B",
                   !.ppmTime = t]
    ELSE IF s.ppmState = "PPM_DOSING_B" /\ Sub(t, s.ppmTime) >= dosingDuration
    THEN [s EXCEPT !.pin["PPM_B"] = FALSE, !.ppmState = "PPM_IDLE"]
    ELSE s

PpmAdvance(s, t) ==
    IF s.ppmState = "PPM_DOSING_A" /\ Sub(t, s.ppmTime) >= dosingDuration
    THEN [s EXCEPT !.pin["PPM_A"] = FALSE, !.ppmState = "PPM_DELAYING",
                   !.ppmTime = t]
    ELSE IF s.ppmState = "PPM_DELAYING" /\ Sub(t, s.ppmTime) >= delayDuration
    THEN [s EXCEPT !.pin["PPM_B"] = TRUE, !.ppmState = "PPM_DOSING_B",
                   !.ppmTime = t]
    ELSE IF s.ppmState = "PPM_DOSING_B" /\ Sub(t, s.ppmTime) >= dosingDuration
    THEN [s EXCEPT !.pin["PPM_B"] = FALSE, !.ppmState = "PPM_IDLE"]
    ELSE s

\* PhUpAdvance with the digitalWrite of line 808 left out.
PhUpAdvanceKeepsPin(s, t) ==
    IF s.phState = "PH_DOSING_UP" /\ Sub(t, s.phTime) >= dosingDuration
    THEN [s EXCEPT !.phState = "PH_IDLE"]
    ELSE s

PhUpAdvance(s, t) ==
    IF s.phState = "PH_DOSING_UP" /\ Sub(t, s.phTime) >= dosingDuration
    THEN [s EXCEPT !.pin["PH_UP"] = FALSE, !.phState = "PH_IDLE"]
    ELSE s

PhDownAdvance(s, t) ==
    IF s.phState = "PH_DOSING_DOWN" /\ Sub(t, s.phTime) >= dosingDuration
    THEN [s EXCEPT !.pin["PH_DOWN"] = FALSE, !.phState = "PH_IDLE"]
    ELSE s

DosingAdvance(s, t) == PhDownAdvance(PhUpAdvance(PpmAdvance(s, t), t), t)

\* ------------------------------------------- directive application, 864-912
\* unsigned long lockoutMs = doc["lockout_ms"] | 120000UL;
lockoutMsOf(d) ==
    IF d.lockout_ms = NoField THEN DefaultLockoutMs ELSE d.lockout_ms

SequenceTime == dosingDuration + delayDuration + dosingDuration

\* StartDosing with the test phState==PH_IDLE of line 888 left out.
StartDosingNoIdleTest(s, t, d) ==
    IF ~isLockedOut(s, t)
    THEN IF d.ph_up_pump /\ s.phState = "PH_IDLE"
         THEN [s EXCEPT !.phState = "PH_DOSING_UP", !.phTime = t,
                        !.pin["PH_UP"] = TRUE,
                        !.lockout = Add(t, lockoutMsOf(d))]
         ELSE IF d.ph_down_pump
         THEN [s EXCEPT !.phState = "PH_DOSING_DOWN", !.phTime = t,
                        !.pin["PH_DOWN"] = TRUE,
                        !.lockout = Add(t, lockoutMsOf(d))]
         ELSE IF d.ppm_a_pump /\ d.ppm_b_pump /\ s.ppmState = "PPM_IDLE"
         THEN [s EXCEPT !.ppmState = "PPM_DOSING_A", !.ppmTime = t,
                        !.pin["PPM_A"] = TRUE,
                        !.lockout = Add(t, SequenceTime + lockoutMsOf(d))]
         ELSE s
    ELSE s

\* StartDosing with the test of line 880 left out.
StartDosingNoLockout(s, t, d) ==
    IF d.ph_up_pump /\ s.phState = "PH_IDLE"
    THEN [s EXCEPT !.phState = "PH_DOSING_UP", !.phTime = t,
                   !.pin["PH_UP"] = TRUE,
                   !.lockout = Add(t, lockoutMsOf(d))]
    ELSE IF d.ph_down_pump /\ s.phState = "PH_IDLE"
    THEN [s EXCEPT !.phState = "PH_DOSING_DOWN", !.phTime = t,
                   !.pin["PH_DOWN"] = TRUE,
                   !.lockout = Add(t, lockoutMsOf(d))]
    ELSE IF d.ppm_a_pump /\ d.ppm_b_pump /\ s.ppmState = "PPM_IDLE"
    THEN [s EXCEPT !.ppmState = "PPM_DOSING_A", !.ppmTime = t,
                   !.pin["PPM_A"] = TRUE,
                   !.lockout = Add(t, SequenceTime + lockoutMsOf(d))]
    ELSE s

\* StartDosing with the PPM branch tested on its own, not as the last else-if.
StartDosingIndependent(s, t, d) ==
    IF ~isLockedOut(s, t)
    THEN LET s1 == IF d.ph_up_pump /\ s.phState = "PH_IDLE"
                   THEN [s EXCEPT !.phState = "PH_DOSING_UP", !.phTime = t,
                                  !.pin["PH_UP"] = TRUE,
                                  !.lockout = Add(t, lockoutMsOf(d))]
                   ELSE IF d.ph_down_pump /\ s.phState = "PH_IDLE"
                   THEN [s EXCEPT !.phState = "PH_DOSING_DOWN", !.phTime = t,
                                  !.pin["PH_DOWN"] = TRUE,
                                  !.lockout = Add(t, lockoutMsOf(d))]
                   ELSE s
         IN  IF d.ppm_a_pump /\ d.ppm_b_pump /\ s1.ppmState = "PPM_IDLE"
             THEN [s1 EXCEPT !.ppmState = "PPM_DOSING_A", !.ppmTime = t,
                             !.pin["PPM_A"] = TRUE,
                             !.lockout = Add(t, SequenceTime + lockoutMsOf(d))]
             ELSE s1
    ELSE s

\* StartDosing with a pump flag that is false switching a running pH-up dose
\* off.
StartDosingStopsOnFalse(s, t, d) ==
    IF ~d.ph_up_pump /\ s.phState = "PH_DOSING_UP"
    THEN [s EXCEPT !.phState = "PH_IDLE", !.pin["PH_UP"] = FALSE]
    ELSE IF ~isLockedOut(s, t)
    THEN IF d.ph_up_pump /\ s.phState = "PH_IDLE"
         THEN [s EXCEPT !.phState = "PH_DOSING_UP", !.phTime = t,
                        !.pin["PH_UP"] = TRUE,
                        !.lockout = Add(t, lockoutMsOf(d))]
         ELSE IF d.ph_down_pump /\ s.phState = "PH_IDLE"
         THEN [s EXCEPT !.phState = "PH_DOSING_DOWN", !.phTime = t,
                        !.pin["PH_DOWN"] = TRUE,
                        !.lockout = Add(t, lockoutMsOf(d))]
         ELSE IF d.ppm_a_pump /\ d.ppm_b_pump /\ s.ppmState = "PPM_IDLE"
         THEN [s EXCEPT !.ppmState = "PPM_DOSING_A", !.ppmTime = t,
                        !.pin["PPM_A"] = TRUE,
                        !.lockout = Add(t, SequenceTime + lockoutMsOf(d))]
         ELSE s
    ELSE s

\* StartDosing with the sequence time left out of the PPM deadline (line 899).
StartDosingNoSequenceTime(s, t, d) ==
    IF ~isLockedOut(s, t)
    THEN IF d.ph_up_pump /\ s.phState = "PH_IDLE"
         THEN [s EXCEPT !.phState = "PH_DOSING_UP", !.phTime = t,
                        !.pin["PH_UP"] = TRUE,
                        !.lockout = Add(t, lockoutMsOf(d))]
         ELSE IF d.ph_down_pump /\ s.phState = "PH_IDLE"
         THEN [s EXCEPT !.phState = "PH_DOSING_DOWN", !.phTime = t,
                        !.pin["PH_DOWN"] = TRUE,
                        !.lockout = Add(t, lockoutMsOf(d))]
         ELSE IF d.ppm_a_pump /\ d.ppm_b_pump /\ s.ppmState = "PPM_IDLE"
         THEN [s EXCEPT !.ppmState = "PPM_DOSING_A", !.ppmTime = t,
                        !.pin["PPM_A"] = TRUE,
                        !.lockout = Add(t, lockoutMsOf(d))]
         ELSE s
    ELSE s

StartDosing(s, t, d) ==
    IF ~isLockedOut(s, t)
    THEN IF d.ph_up_pump /\ s.phState = "PH_IDLE"
         THEN [s EXCEPT !.phState = "PH_DOSING_UP", !.phTime = t,
                        !.pin["PH_UP"] = TRUE,
                        !.lockout = Add(t, lockoutMsOf(d))]
         ELSE IF d.ph_down_pump /\ s.phState = "PH_IDLE"
         THEN [s EXCEPT !.phState = "PH_DOSING_DOWN", !.phTime = t,
                        !.pin["PH_DOWN"] = TRUE,
                        !.lockout = Add(t, lockoutMsOf(d))]
         ELSE IF d.ppm_a_pump /\ d.ppm_b_pump /\ s.ppmState = "PPM_IDLE"
         THEN [s EXCEPT !.ppmState = "PPM_DOSING_A", !.ppmTime = t,
                        !.pin["PPM_A"] = TRUE,
                        !.lockout = Add(t, SequenceTime + lockoutMsOf(d))]
         ELSE s
    ELSE s

ApplyDirective(s, t, d) == StartDosing(controlGrowLight(s, d.light), t, d)

\* The branch of lines 849-931 taken on a response.
HttpBranch(beginOk, code, parseOk) ==
    IF ~beginOk THEN "transport_failed"
    ELSE IF ~(code > 0) THEN "transport_failed"
    ELSE IF ~parseOk THEN "parse_error"
    ELSE "applied"

\* Lines 849-931 as a function of the response.
HandleResponse(s, t, beginOk, code, parseOk, d) ==
    IF HttpBranch(beginOk, code, parseOk) = "applied"
    THEN ApplyDirective(s, t, d)
    ELSE s

\* ------------------------------------------------------------ ghosts
\* The interval a start arms, in ticks, as an unbounded number.
ArmedInterval(s, s2, d) ==
    IF s2.ppmState = "PPM_DOSING_A" /\ s.ppmState = "PPM_IDLE"
    THEN SequenceTime + lockoutMsOf(d)
    ELSE lockoutMsOf(d)

Started(s, s2) ==
    \/ s.phState = "PH_IDLE" /\ s2.phState # "PH_IDLE"
    \/ s.ppmState = "PPM_IDLE" /\ s2.ppmState = "PPM_DOSING_A"

Elapse(k) ==
    /\ now' = Add(now, k)
    /\ seqAge' = IF ppmState = "PPM_IDLE" THEN 0 ELSE Min(seqAge + k, SeqAgeCap)

\* The longest phase of a dose, in ticks: an age is counted up to it.
PhaseAgeCap == Max(dosingDuration, delayDuration)

\* The age of the PPM phase after a step that took k ticks and left the
\* actuators as s2: 0 on entry and in IDLE.
PhaseAged(s2, k) ==
    IF s2.ppmState # ppmState \/ s2.ppmState = "PPM_IDLE" THEN 0
    ELSE Min(ppmPhaseAge + k, PhaseAgeCap)

\* ------------------------------------------------------------ Init
\* The state setup() leaves (lines 660-724): pumps LOW, machines IDLE,
\* lockout 0; config_mode is FALSE iff the saved network was joined.
Init ==
    /\ now = 0
    /\ config_mode \in BOOLEAN
    /\ wifi = ~config_mode
    /\ pc = "top"
    /\ webClient = "none"
    /\ phState = "PH_IDLE"
    /\ phStateChangeTime = 0
    /\ ppmState = "PPM_IDLE"
    /\ ppmStateChangeTime = 0
    /\ globalLockoutUntil = 0
    /\ pin = AllLow
    /\ ledDuty = 0
    /\ lastHttp = "none"
    /\ httpCode = 0
    /\ currentDistanceCm = 0
    /\ currentTempC = 25
    /\ sensorData = [temperature |-> 0, ppm |-> 0]
    /\ lastPpmVolt = 0
    /\ dhtReading = 25
    /\ lastLightAdjustTime = 0
    /\ stepIndex = 0
    /\ coil = CoilsLow
    /\ stepsUp = 0
    /\ stepsDown = 0
    /\ startHint = NoField
    /\ seqAge = 0
    /\ ppmPhaseAge = 0
    /\ ppmMoved = FALSE
    /\ lockRemain = 0

\* ------------------------------------------------------------ actions
\* Lines 729-829 when line 785 holds: the dosing machines advance, the sensors
\* are read (reading is what the DHT returns, dist the distance readUltrasonic
\* computes, v the voltage readPpmSensor computes) and the regulator runs.
OnlineRead(reading, dist, v) ==
    /\ pc = "top"
    /\ webClient # "waiting"
    /\ webClient' = "none"
    /\ ~config_mode
    /\ wifi' = TRUE
    /\ Install(DosingAdvance(Cur, now))
    /\ seqAge' = IF DosingAdvance(Cur, now).ppmState = "PPM_IDLE" THEN 0 ELSE seqAge
    /\ ppmPhaseAge' = PhaseAged(DosingAdvance(Cur, now), 0)
    /\ ppmMoved' = (DosingAdvance(Cur, now).ppmState # ppmState)
    /\ pc' = "net"
    /\ lastHttp' = "none"
    /\ startHint' = NoField
    /\ httpCode' = 0
    /\ InstallReg(adjustLightHeightAuto(
                      readUltrasonic([Reg EXCEPT !.up = 0, !.down = 0], dist), now))
    /\ InstallSens(readPpmSensor(readDHT(Sens, reading), v))
    /\ UNCHANGED <<now, config_mode, lockRemain>>

\* The iteration in a room at a steady 25 degrees, with a steady solution.
SteadyTempC == 25
SteadyVolt == 100

Online(dist) == OnlineRead(SteadyTempC, dist, SteadyVolt)

\* The iteration with the light at a steady distance inside the target band.
\* The dosing machines and the regulator share no variable but the clock.
SteadyCm == 27

LoopOnline == Online(SteadyCm)

\* Lines 729-785 and 935 when line 785 fails (configuration mode, or the
\* station is not connected): only delay(100) runs.
LoopOffline ==
    /\ pc = "top"
    /\ webClient # "waiting"
    /\ webClient' = "none"
    /\ wifi' = FALSE
    /\ \E k \in 0..1 :
          /\ Elapse(k)
          /\ ppmPhaseAge' = PhaseAged(Cur, k)
          /\ lockRemain' = Max(lockRemain - k, 0)
    /\ lastHttp' = "none"
    /\ startHint' = NoField
    /\ httpCode' = 0
    /\ stepsUp' = 0
    /\ stepsDown' = 0
    /\ ppmMoved' = FALSE
    /\ UNCHANGED <<config_mode, pc, phState, phStateChangeTime, ppmState,
                   ppmStateChangeTime, globalLockoutUntil, pin, ledDuty,
                   currentDistanceCm, lastLightAdjustTime, stepIndex, coil,
                   currentTempC, sensorData, lastPpmVolt, dhtReading>>

\* Lines 831-935: the POST blocks for k ticks, then the response.
Http(k, beginOk, code, parseOk, d) ==
    /\ pc = "net"
    /\ LET t  == Add(now, k)
           s2 == HandleResponse(Cur, t, beginOk, code, parseOk, d)
       IN /\ Install(s2)
          /\ Elapse(k)
          /\ ppmPhaseAge' = PhaseAged(s2, k)
          /\ lockRemain' = IF Started(Cur, s2) THEN ArmedInterval(Cur, s2, d)
                           ELSE Max(lockRemain - k, 0)
          /\ startHint' = IF Started(Cur, s2) THEN d.lockout_ms ELSE NoField
    /\ lastHttp' = HttpBranch(beginOk, code, parseOk)
    /\ httpCode' = IF beginOk THEN code ELSE 0
    /\ pc' = "top"
    /\ ppmMoved' = FALSE
    /\ UNCHANGED <<config_mode, wifi, webClient, currentDistanceCm,
                   lastLightAdjustTime, stepIndex, coil, stepsUp, stepsDown,
                   currentTempC, sensorData, lastPpmVolt, dhtReading>>

AnyDirective == CHOOSE d \in Directives : TRUE

HttpBeginFailed ==
    \E k \in 0..MaxBlock : Http(k, FALSE, 0, FALSE, AnyDirective)

HttpPostFailed ==
    \E k \in 0..MaxBlock : \E code \in {c \in HttpCodes : c <= 0} :
        Http(k, TRUE, code, FALSE, AnyDirective)

HttpParseError ==
    \E k \in 0..MaxBlock : \E code \in {c \in HttpCodes : c > 0} :
        Http(k, TRUE, code, FALSE, AnyDirective)

HttpApplied ==
    \E k \in 0..MaxBlock : \E code \in {c \in HttpCodes : c > 0} :
        \E d \in Directives : Http(k, TRUE, code, TRUE, d)

Next ==
    \/ LoopOnline
    \/ LoopOffline
    \/ HttpBeginFailed
    \/ HttpPostFailed
    \/ HttpParseError
    \/ HttpApplied

Spec == Init /\ [][Next]_vars

HttpStep == HttpBeginFailed \/ HttpPostFailed \/ HttpParseError \/ HttpApplied

\* A server that only ever asks for a nutrient dose: a 200 response whose
\* document sets ppm_a_pump and ppm_b_pump and nothing else.
NutrientDirective ==
    [light |-> 0, ph_up_pump |-> FALSE, ph_down_pump |-> FALSE,
     ppm_a_pump |-> TRUE, ppm_b_pump |-> TRUE, lockout_ms |-> NoField]

HttpNutrient == \E k \in 0..MaxBlock : Http(k, TRUE, 200, TRUE, NutrientDirective)

NutrientNext ==
    \/ LoopOnline
    \/ LoopOffline
    \/ HttpBeginFailed
    \/ HttpPostFailed
    \/ HttpParseError
    \/ HttpNutrient

\* The firmware against that server: loop() keeps being called, a request
\* that was sent returns, and millis() keeps advancing. Nothing is assumed of
\* WiFi.status().
FairSpec ==
    /\ Init /\ [][NutrientNext]_vars
    /\ WF_vars(LoopOnline \/ LoopOffline)
    /\ WF_vars(NutrientNext /\ pc = "net")
    /\ WF_vars(NutrientNext /\ now' # now)

\* A server that only ever asks for a pH correction: a 200 response whose
\* document sets ph_up_pump or ph_down_pump and nothing else.
PhDirectives ==
    [light : {0}, ph_up_pump : BOOLEAN, ph_down_pump : BOOLEAN,
     ppm_a_pump : {FALSE}, ppm_b_pump : {FALSE}, lockout_ms : {NoField}]

HttpPh == \E k \in 0..MaxBlock : \E d \in PhDirectives : Http(k, TRUE, 200, TRUE, d)

PhNext ==
    \/ LoopOnline
    \/ LoopOffline
    \/ HttpBeginFailed
    \/ HttpPh

\* The firmware against that server, under the same scheduling as FairSpec.
FairPhSpec ==
    /\ Init /\ [][PhNext]_vars
    /\ WF_vars(LoopOnline \/ LoopOffline)
    /\ WF_vars(PhNext /\ pc = "net")
    /\ WF_vars(PhNext /\ now' # now)

\* ------------------------------------------------- the local web server
\* Lines 743-782. A step of the web client handling takes k ticks and changes
\* nothing but webClient (the pages sent and the Wi-Fi provisioning of
\* handleWiFiConnect are not modelled).
WebStep(k, after) ==
    /\ webClient' = after
    /\ Elapse(k)
    /\ ppmPhaseAge' = PhaseAged(Cur, k)
    /\ lockRemain' = Max(lockRemain - k, 0)
    /\ UNCHANGED <<config_mode, wifi, pc, phState, phStateChangeTime, ppmState,
                   ppmStateChangeTime, globalLockoutUntil, pin, ledDuty,
                   lastHttp, httpCode, currentDistanceCm, lastLightAdjustTime,
                   stepIndex, coil, stepsUp, stepsDown, startHint, ppmMoved,
                   currentTempC, sensorData, lastPpmVolt, dhtReading>>

\* Lines 743-749: server.available() returns a client; the while loop is entered.
WebAccept ==
    /\ pc = "top"
    /\ webClient = "none"
    /\ WebStep(0, "waiting")

\* Lines 749-778, the loop going round: the client is connected and has sent
\* nothing, or bytes that do not end the request.
WebWait ==
    /\ webClient = "waiting"
    /\ \E k \in 0..1 : WebStep(k, "waiting")

\* Lines 749-781, the loop left: the blank line that ends the request was read
\* (break, line 770) or the client has disconnected; webClient.stop().
WebServe ==
    /\ webClient = "waiting"
    /\ \E k \in 0..1 : WebStep(k, "done")

WebNext ==
    \/ LoopOnline
    \/ LoopOffline
    \/ HttpBeginFailed
    \/ HttpPh
    \/ WebAccept
    \/ WebWait
    \/ WebServe

\* The firmware with a browser on the local network: the firmware's own steps
\* are taken when they can be, and millis() keeps advancing; nothing is
\* assumed of what the client sends, or when.
FairWebSpec ==
    /\ Init /\ [][WebNext]_vars
    /\ WF_vars(LoopOnline \/ LoopOffline)
    /\ WF_vars(WebNext /\ pc = "net")
    /\ WF_vars(WebWait)
    /\ WF_vars(WebNext /\ now' # now)

\* ------------------------------------------------- the light regulator alone
\* What readUltrasonic may compute: no echo (0), below, at the ends of, and
\* above the target band, and out of range (400).
DistanceReadings == {0, 20, TARGET_MIN_CM, TARGET_MAX_CM, 35, MaxValidCm}

\* A server that sends no dosing command, only light_motor_cmd (or not even
\* that: "absent").
MotorCommands == {"absent", "UP", "DOWN", "STOP", "SPIN"}

MotorDirectives ==
    [light : {0}, ph_up_pump : {FALSE}, ph_down_pump : {FALSE},
     ppm_a_pump : {FALSE}, ppm_b_pump : {FALSE}, lockout_ms : {NoField},
     light_motor_cmd : MotorCommands]

OnlineSensed == \E dist \in DistanceReadings : Online(dist)

HttpMotor ==
    \E k \in 0..MaxBlock : \E d \in MotorDirectives : Http(k, TRUE, 200, TRUE, d)

LightNext ==
    \/ OnlineSensed
    \/ LoopOffline
    \/ HttpBeginFailed
    \/ HttpMotor

LightSpec == Init /\ [][LightNext]_vars

\* ------------------------------------------------------ the sensors alone
\* What the DHT11 may return (the sensor measures 0 to 50 degrees) and what
\* voltages the PPM probe may give.
TempReadings == {NaN, 0, 20, 25, 30}
VoltReadings == {0, 100, 200}

OnlineSensors ==
    \E reading \in TempReadings : \E v \in VoltReadings :
        OnlineRead(reading, SteadyCm, v)

SensorNext ==
    \/ OnlineSensors
    \/ LoopOffline
    \/ HttpBeginFailed

SensorSpec == Init /\ [][SensorNext]_vars

\* ------------------------------------------------------ the grow light alone
\* A server that sets the brightness and, at times, asks for a pH-up dose
\* (which arms the lockout).
BrightnessValues == {-5, 0, 100, 255, 256, 400}

DimmerDirectives ==
    [light : BrightnessValues, ph_up_pump : BOOLEAN, ph_down_pump : {FALSE},
     ppm_a_pump : {FALSE}, ppm_b_pump : {FALSE}, lockout_ms : {NoField}]

HttpDimmer ==
    \E k \in 0..MaxBlock : \E d \in DimmerDirectives : Http(k, TRUE, 200, TRUE, d)

DimmerNext ==
    \/ LoopOnline
    \/ LoopOffline
    \/ HttpDimmer

DimmerSpec == Init /\ [][DimmerNext]_vars

\* ------------------------------------------------------------ claims
Failures == {"transport_failed", "parse_error"}
CyclePeriod == MaxBlock

\* C1: PH_UP_PUMP_PIN and PH_DOWN_PUMP_PIN are never both HIGH.
C1_PhPumpsExclusive == ~(pin["PH_UP"] /\ pin["PH_DOWN"])

\* A directive has just been applied with pH-up dosing and no lockout in force.
C1_Witness ==
    /\ pin["PH_UP"] /\ phState = "PH_DOSING_UP"
    /\ lastHttp = "applied" /\ ~isLockedOut(Cur, now)

\* C2: PPM_A_PUMP_PIN and PPM_B_PUMP_PIN are never both HIGH.
C2_PpmPumpsExclusive == ~(pin["PPM_A"] /\ pin["PPM_B"])

\* Pump B is dosing and the last read of WiFi.status() was "not connected".
C2_Witness == pin["PPM_B"] /\ ppmState = "PPM_DOSING_B" /\ ~wifi /\ ~config_mode

\* C3: a machine leaves IDLE only in a step that applies a directive, and only
\* if millis() < globalLockoutUntil is false at that moment; a directive
\* applied while the lockout is active changes no machine, pin or deadline.
C3_LockoutRespected ==
    [][ /\ Started(Cur, Cur') =>
            (~(now' < globalLockoutUntil) /\ pc = "net" /\ lastHttp' = "applied")
        /\ (pc = "net" /\ now' < globalLockoutUntil) =>
            UNCHANGED <<phState, ppmState, pin, globalLockoutUntil,
                        phStateChangeTime, ppmStateChangeTime>> ]_vars

\* A directive was applied while the lockout was active, both machines idle.
C3_Witness ==
    /\ lastHttp = "applied" /\ isLockedOut(Cur, now) /\ lockRemain > 0
    /\ phState = "PH_IDLE" /\ ppmState = "PPM_IDLE"

\* C4: once ppmState is PPM_DOSING_A the sequence reaches PPM_IDLE with both
\* PPM pins LOW even if WiFi.status() reads "not connected" from then on: from
\* PPM_DOSING_A, either the sequence completes or Wi-Fi is read connected again.
C4_SequenceCompletes ==
    (ppmState = "PPM_DOSING_A" /\ ~wifi) ~>
        (wifi \/ (ppmState = "PPM_IDLE" /\ ~pin["PPM_A"] /\ ~pin["PPM_B"]))

\* C5: a PPM sequence is back at PPM_IDLE D + G + D ticks after it began,
\* give or take one cycle period.
C5_CompletesOnTime ==
    [][ /\ ppmState # "PPM_IDLE" => seqAge <= SequenceTime + CyclePeriod
        /\ (ppmState = "PPM_DOSING_B" /\ ppmState' = "PPM_IDLE") =>
            seqAge >= SequenceTime - CyclePeriod ]_vars

\* C6: a response whose status is neither 200 nor 201 changes none of the
\* PWM duty, the pump pins, phState, ppmState, globalLockoutUntil.
C6_Non2xxIgnored ==
    [][ (pc = "net" /\ pc' = "top" /\ httpCode' \notin {200, 201}) =>
        UNCHANGED <<ledDuty, pin, phState, ppmState, globalLockoutUntil>> ]_vars

\* C7: after a transport failure or a parse error a dose that is in flight
\* still ends on the following cycles, whatever they read of WiFi.status():
\* pump A, HIGH when the request failed, goes LOW or an iteration passes the
\* test of line 785 again.
C7_DoseStillEnds ==
    (lastHttp \in Failures /\ pin["PPM_A"]) ~> (~pin["PPM_A"] \/ pc = "net")

\* The part of C7 about the failing iteration itself: it changes none of the
\* PWM duty, the pump pins, phState, ppmState, globalLockoutUntil (nor the
\* entry times), it goes on to its end, and a pass of the dosing machines that
\* follows it ends a phase whose time is up.
C7_HandlerChangesNothing ==
    [][ /\ (pc = "net" /\ lastHttp' \in Failures) =>
            /\ UNCHANGED <<ledDuty, pin, phState, ppmState, globalLockoutUntil,
                           phStateChangeTime, ppmStateChangeTime>>
            /\ pc' = "top"
        /\ (pc = "top" /\ pc' = "net" /\ lastHttp \in Failures) =>
            /\ (phState # "PH_IDLE"
                   /\ Sub(now, phStateChangeTime) >= dosingDuration) =>
                (phState' = "PH_IDLE" /\ ~pin'["PH_UP"] /\ ~pin'["PH_DOWN"])
            /\ (ppmState = "PPM_DOSING_A"
                   /\ Sub(now, ppmStateChangeTime) >= dosingDuration) =>
                (ppmState' = "PPM_DELAYING" /\ ~pin'["PPM_A"])
            /\ (ppmState = "PPM_DOSING_B"
                   /\ Sub(now, ppmStateChangeTime) >= dosingDuration) =>
                (ppmState' = "PPM_IDLE" /\ ~pin'["PPM_B"]) ]_vars

\* The response failed to parse while pump A was dosing and the light was on.
C7_Witness ==
    lastHttp = "parse_error" /\ ppmState = "PPM_DOSING_A" /\ ledDuty = 255

\* C8: across the wrap of millis() the lockout blocks new starts for the whole
\* interval armed, and no longer.
C8_ClockWrapSafe ==
    [][ /\ Started(Cur, Cur') => lockRemain <= Sub(now', now)
        /\ lockRemain = 0 => ~isLockedOut(Cur, now) ]_vars

\* C9: applying a directive a second time, right after it was applied, starts
\* no dose and drives no pump pin HIGH.
C9_Idempotent ==
    [][ \A d \in Directives :
          (\E k \in 0..MaxBlock, c \in {200, 201} : Http(k, TRUE, c, TRUE, d)) =>
          LET s2 == ApplyDirective(Cur', now', d)
          IN  /\ ~Started(Cur', s2)
              /\ \A p \in Pins : s2.pin[p] => pin'[p] ]_vars

\* C10: a dose started by a directive with lockout_ms = 0 arms the default:
\* now + 120000 for pH, now + D + G + D + 120000 for PPM.
C10_ZeroMeansDefault ==
    [][ \A d \in {x \in Directives : x.lockout_ms = 0} :
          ((\E k \in 0..MaxBlock, c \in {200, 201} : Http(k, TRUE, c, TRUE, d))
             /\ Started(Cur, Cur')) =>
          globalLockoutUntil' =
              Add(now', DefaultLockoutMs +
                        (IF ppmState = "PPM_IDLE" /\ ppmState' = "PPM_DOSING_A"
                         THEN SequenceTime ELSE 0)) ]_vars

\* C11: while currentDistanceCm is 0 (no valid reading yet) the regulator emits
\* no step, in either direction, in any iteration.
C11_NoReadingNoSteps ==
    currentDistanceCm = 0 => (stepsUp = 0 /\ stepsDown = 0)

\* C12: with a valid distance d, a run of the regulator emits only step(true)
\* calls (a batch of them when it is not throttled) if d < TARGET_MIN_CM, only
\* step(false) calls if d > TARGET_MAX_CM, and none if d is in the band, ends
\* included.
C12_RegulatorBand ==
    [][ (pc = "top" /\ pc' = "net" /\ currentDistanceCm' > 0) =>
        LET d   == currentDistanceCm'
            ran == Sub(now, lastLightAdjustTime) >= LIGHT_ADJUST_INTERVAL_MS
        IN  /\ d < TARGET_MIN_CM =>
                (stepsDown' = 0 /\ (ran => stepsUp' = LIGHT_ADJUST_STEPS))
            /\ d > TARGET_MAX_CM =>
                (stepsUp' = 0 /\ (ran => stepsDown' = LIGHT_ADJUST_STEPS))
            /\ (TARGET_MIN_CM <= d /\ d <= TARGET_MAX_CM) =>
                (stepsUp' = 0 /\ stepsDown' = 0) ]_vars

\* The regulator has just run, unthrottled, with the distance at the upper end
\* of the band, after having moved the light in an earlier iteration.
C12_Witness ==
    /\ pc = "net" /\ currentDistanceCm = TARGET_MAX_CM
    /\ lastLightAdjustTime = now /\ now > 0
    /\ stepsUp = 0 /\ stepsDown = 0 /\ stepIndex # 0

\* C13: a directive applied with light = v leaves the PWM duty at 0 if v < 0,
\* at 255 if v > 255 and at v otherwise, lockout active or not.
C13_BrightnessClamp ==
    [][ \A d \in DimmerDirectives :
          (\E k \in 0..MaxBlock : Http(k, TRUE, 200, TRUE, d)) =>
          ledDuty' = (IF d.light < 0 THEN 0
                      ELSE IF d.light > 255 THEN 255 ELSE d.light) ]_vars

\* Brightness 100 was applied while the lockout was active.
C13_Witness ==
    /\ lastHttp = "applied" /\ ledDuty = 100
    /\ isLockedOut(Cur, now) /\ phState = "PH_IDLE"

\* C14: one directive starts at most one dose, in the order pH up, pH down, PPM.
\* With both machines IDLE and no lockout, a directive with ph_up_pump and
\* ph_down_pump drives PH_UP HIGH, leaves PH_DOWN LOW and leaves ppmState and
\* the PPM pins as they were, whatever its PPM flags; one with ph_down_pump but
\* not ph_up_pump starts the pH-down dose and no PPM sequence.
C14_OneDoseByPriority ==
    [][ /\ ~(phState = "PH_IDLE" /\ phState' # "PH_IDLE"
               /\ ppmState = "PPM_IDLE" /\ ppmState' # "PPM_IDLE")
        /\ (pc = "net" /\ lastHttp' = "applied" /\ phState = "PH_IDLE"
               /\ ppmState = "PPM_IDLE" /\ ~(now' < globalLockoutUntil)) =>
            \A d \in {x \in Directives : x.ph_up_pump \/ x.ph_down_pump} :
               Http(Sub(now', now), TRUE, httpCode', TRUE, d) =>
               /\ phState' = (IF d.ph_up_pump THEN "PH_DOSING_UP"
                                              ELSE "PH_DOSING_DOWN")
               /\ pin'["PH_UP"] = d.ph_up_pump
               /\ pin'["PH_DOWN"] = ~d.ph_up_pump
               /\ ppmState' = "PPM_IDLE"
               /\ ~pin'["PPM_A"] /\ ~pin'["PPM_B"] ]_vars

\* A pH-up dose has just been started with no PPM sequence, the lockout armed
\* for no time at all.
C14_Witness ==
    /\ lastHttp = "applied" /\ phState = "PH_DOSING_UP" /\ phStateChangeTime = now
    /\ ppmState = "PPM_IDLE" /\ globalLockoutUntil = now /\ now > 0

\* C15: between steps of the loop each pump pin is HIGH exactly when its machine
\* is in the state of that pump.
C15_PinsMatchStates ==
    /\ pin["PH_UP"] <=> (phState = "PH_DOSING_UP")
    /\ pin["PH_DOWN"] <=> (phState = "PH_DOSING_DOWN")
    /\ pin["PPM_A"] <=> (ppmState = "PPM_DOSING_A")
    /\ pin["PPM_B"] <=> (ppmState = "PPM_DOSING_B")

\* The PPM sequence is in its pause while a pH-down dose runs.
C15_Witness ==
    ppmState = "PPM_DELAYING" /\ phState = "PH_DOSING_DOWN" /\ pin["PH_DOWN"]

\* C16: a machine that is not IDLE changes state only in the pass of the dosing
\* machines, when its time is up; the application of a directive leaves its
\* state and entry time alone and drives none of its pins LOW.
C16_NoCancellation ==
    [][ /\ (phState # "PH_IDLE" /\ phState' # phState) =>
            (pc = "top" /\ pc' = "net"
               /\ Sub(now, phStateChangeTime) >= dosingDuration)
        /\ (ppmState # "PPM_IDLE" /\ ppmState' # ppmState) =>
            (pc = "top" /\ pc' = "net"
               /\ Sub(now, ppmStateChangeTime) >=
                     (IF ppmState = "PPM_DELAYING" THEN delayDuration
                                                  ELSE dosingDuration))
        /\ (pc = "net" /\ phState # "PH_IDLE") =>
            /\ phStateChangeTime' = phStateChangeTime
            /\ (pin["PH_UP"] => pin'["PH_UP"])
            /\ (pin["PH_DOWN"] => pin'["PH_DOWN"])
        /\ (pc = "net" /\ ppmState # "PPM_IDLE") =>
            /\ ppmStateChangeTime' = ppmStateChangeTime
            /\ (pin["PPM_A"] => pin'["PPM_A"])
            /\ (pin["PPM_B"] => pin'["PPM_B"]) ]_vars

\* A directive was applied, with no lockout in force, to a pH-up dose that was
\* already running and is overdue.
C16_Witness ==
    /\ lastHttp = "applied" /\ phState = "PH_DOSING_UP" /\ pin["PH_UP"]
    /\ Sub(now, phStateChangeTime) >= dosingDuration
    /\ ~isLockedOut(Cur, now)

\* C17: a directive whose light_motor_cmd is UP (DOWN) steps the motor up (down)
\* in the iteration that applies it.
C17_ManualOverrideMoves ==
    [][ \A d \in {x \in MotorDirectives : x.light_motor_cmd \in {"UP", "DOWN"}} :
          (\E k \in 0..MaxBlock : Http(k, TRUE, 200, TRUE, d)) =>
          IF d.light_motor_cmd = "UP" THEN stepsUp' > stepsUp
                                      ELSE stepsDown' > stepsDown ]_vars

\* C18: an iteration that finds Wi-Fi not connected still runs the regulator:
\* with a valid distance outside the band and the throttle interval over, it
\* steps the motor.
C18_RegulatorRunsOffline ==
    [][ (pc = "top" /\ pc' = "top" /\ ~config_mode /\ ~wifi'
           /\ currentDistanceCm > 0
           /\ (currentDistanceCm < TARGET_MIN_CM \/ currentDistanceCm > TARGET_MAX_CM)
           /\ Sub(now, lastLightAdjustTime) >= LIGHT_ADJUST_INTERVAL_MS) =>
        stepsUp' + stepsDown' > 0 ]_vars

\* C19: globalLockoutUntil changes only in a step that takes a machine from
\* IDLE to a dosing state, and never while millis() < globalLockoutUntil.
C19_DeadlineWrittenAtStartOnly ==
    [][ /\ globalLockoutUntil' # globalLockoutUntil =>
            (pc = "net" /\ lastHttp' = "applied" /\ Started(Cur, Cur'))
        /\ now' < globalLockoutUntil =>
            globalLockoutUntil' = globalLockoutUntil ]_vars

\* With the lockout active, pump B has just been switched on by its timer.
C19_Witness ==
    /\ pc = "net" /\ ppmState = "PPM_DOSING_B" /\ ppmStateChangeTime = now
    /\ isLockedOut(Cur, now) /\ lockRemain > 0

\* C20: a pH start at t arms t + h and a PPM start arms t + D + G + D + h
\* (unsigned arithmetic), h being the directive's lockout_ms, or the default
\* when the field is absent.
C20_DeadlineArmed ==
    [][ (pc = "net" /\ lastHttp' = "applied" /\ Started(Cur, Cur')) =>
        LET h == IF startHint' = NoField THEN DefaultLockoutMs ELSE startHint'
            run == IF ppmState' # ppmState
                   THEN dosingDuration + delayDuration + dosingDuration
                   ELSE 0
        IN  globalLockoutUntil' = (now' + run + h) % ClockModulus ]_vars

\* With the defaults, a PPM start at t = 0 has armed D + G + D + the default.
C20_Witness ==
    /\ lastHttp = "applied" /\ ppmState = "PPM_DOSING_A" /\ now = 0
    /\ ppmStateChangeTime = 0
    /\ globalLockoutUntil = dosingDuration + delayDuration + dosingDuration
                               + DefaultLockoutMs

PpmEdges ==
    {<<"PPM_IDLE", "PPM_DOSING_A">>, <<"PPM_DOSING_A", "PPM_DELAYING">>,
     <<"PPM_DELAYING", "PPM_DOSING_B">>, <<"PPM_DOSING_B", "PPM_IDLE">>}

\* C21, as the code has it: ppmState changes only along IDLE -> DOSING_A ->
\* DELAYING -> DOSING_B -> IDLE, by one edge per step; a timed edge is taken
\* only by the advance step of lines 789-806, the start only by a directive
\* with ppm_a_pump and ppm_b_pump both true; phase A ends after PPM_A was HIGH
\* for at least D, PPM_B goes HIGH only out of a pause of at least G with both
\* pins LOW, and phase B ends after at least D.
C21_PpmOrder ==
    [][ LET moved == ppmState' # ppmState
        IN  /\ moved => <<ppmState, ppmState'>> \in PpmEdges
            /\ moved /\ ppmState # "PPM_IDLE" => pc = "top" /\ ppmMoved'
            /\ moved /\ ppmState = "PPM_IDLE" =>
                   /\ pc = "net"
                   /\ \E d \in {x \in Directives : x.ppm_a_pump /\ x.ppm_b_pump} :
                          Http(Sub(now', now), TRUE, httpCode', TRUE, d)
            /\ moved /\ ppmState = "PPM_DOSING_A" =>
                   ppmPhaseAge >= dosingDuration /\ pin["PPM_A"]
            /\ moved /\ ppmState = "PPM_DELAYING" =>
                   ppmPhaseAge >= delayDuration /\ ~pin["PPM_A"] /\ ~pin["PPM_B"]
            /\ moved /\ ppmState = "PPM_DOSING_B" =>
                   ppmPhaseAge >= dosingDuration /\ pin["PPM_B"]
            /\ pin'["PPM_B"] /\ ~pin["PPM_B"] => ppmState = "PPM_DELAYING"
      ]_vars

\* Phase B was just entered by the advance step of this iteration.
C21_Witness ==
    /\ pc = "net" /\ ppmMoved
    /\ ppmState = "PPM_DOSING_B" /\ pin["PPM_B"] /\ ppmPhaseAge = 0

\* C21, as stated: at most one transition of ppmState per iteration of
\* loop() -- the directive of an iteration never starts a sequence when the
\* advance step of the same iteration has moved the machine.
C21_OneTransitionPerCycle ==
    [][ pc = "net" /\ ppmMoved => ppmState' = ppmState ]_vars

\* C22: under a main loop that keeps running, every pH dose ends -- a dose
\* that is on while the station is disconnected is eventually over (phState
\* back at PH_IDLE, both pH pins LOW), or the station is connected again.
C22_PhDoseEnds ==
    (phState # "PH_IDLE" /\ ~wifi)
        ~> (wifi \/ (phState = "PH_IDLE" /\ ~pin["PH_UP"] /\ ~pin["PH_DOWN"]))

\* C23: a run of the regulator that moves the light happens at least
\* LIGHT_ADJUST_INTERVAL_MS after the adjustment before it (whose time is
\* lastLightAdjustTime: the variable is only ever set to the time of an
\* adjustment), in unsigned arithmetic and so across the wrap; it emits exactly
\* LIGHT_ADJUST_STEPS steps, all in one direction; and the four coils are LOW
\* after every step of the loop.
C23_ThrottledBatches ==
    [][ /\ coil' = CoilsLow
        /\ lastLightAdjustTime' # lastLightAdjustTime =>
               lastLightAdjustTime' = now /\ pc = "top" /\ pc' = "net"
        /\ pc = "top" /\ pc' = "net" =>
               /\ stepsUp' + stepsDown' \in {0, LIGHT_ADJUST_STEPS}
               /\ stepsUp' = 0 \/ stepsDown' = 0
               /\ stepsUp' + stepsDown' > 0 =>
                      /\ Sub(now, lastLightAdjustTime) >= LIGHT_ADJUST_INTERVAL_MS
                      /\ lastLightAdjustTime' = now
      ]_vars

\* The regulator has just lowered the light, after the clock wrapped.
C23_Witness ==
    /\ pc = "net" /\ stepsDown = LIGHT_ADJUST_STEPS /\ stepsUp = 0
    /\ lastLightAdjustTime = now /\ now = 0 /\ coil = CoilsLow /\ stepIndex # 0

\* C24: the handling of a local web client ends after a bounded wait, so a
\* pH pump that is HIGH when a client is accepted is reached by the advance
\* step again: the loop leaves the while loop of line 749.
C24_WebClientWaitEnds ==
    (webClient = "waiting" /\ pin["PH_UP"]) ~> (webClient # "waiting")

\* C25: an iteration in which the DHT returns NaN reports temperature 0 and
\* leaves currentTempC at its last known value; and no compensation is applied
\* with a temperature of 0 or below (the reported ppm is then 420 v).
C25_NanKeepsLastTemperature ==
    [][ pc = "top" /\ pc' = "net" =>
          /\ dhtReading' = NaN =>
                 sensorData'.temperature = 0 /\ currentTempC' = currentTempC
          /\ currentTempC' <= 0 => sensorData'.ppm = 420 * lastPpmVolt'
      ]_vars

\* C26: the phase index stays in 0..7; an iteration that called step(true) u
\* times or step(false) d times has moved it by +u or -d modulo 8, one phase
\* per call; stop() and every other step of the loop leave it where it was.
C26_PhaseIndex ==
    [][ /\ stepIndex' \in 0..(SeqLen - 1)
        /\ IF pc = "top" /\ pc' = "net"
           THEN stepIndex' = (stepIndex + stepsUp' - stepsDown' + SeqLen) % SeqLen
           ELSE stepIndex' = stepIndex
      ]_vars

\* A raising batch has ended with stop(): the coils are LOW and the index is
\* at the phase of the last step, after going round past phase 7.
C26_Witness ==
    /\ pc = "net" /\ stepsUp = LIGHT_ADJUST_STEPS /\ coil = CoilsLow
    /\ stepIndex = 2

\* C27: the two dosing machines are never non-IDLE at the same time, and at
\* most one of the four pump pins is HIGH.
C27_OneMachineAtATime ==
    /\ phState = "PH_IDLE" \/ ppmState = "PPM_IDLE"
    /\ Cardinality({p \in Pins : pin[p]}) <= 1
====
